---- MODULE Spec2Model ----
(***************************************************************************)
(* serial_keybridge.py: Arduino serial -> keyboard bridge.                 *)
(*                                                                         *)
(* Text is modelled as a sequence of one-character strings, so that        *)
(* strip / split / int are computed the way Python computes them.  The     *)
(* token "<ff>" stands for a byte that is not valid UTF-8.                 *)
(***************************************************************************)
EXTENDS Integers, Sequences, FiniteSets, TLC

\* ------------------------------------------------------------------ bounds
\* Number of ser.readline() calls explored in Running.
MaxReads == 4
\* Length of the scripted device feeds explored by SpecE2E.
MaxFeed == 5

\* --------------------------------------------------------------- constants
BAUD == 115200

Buttons == {<<"B", "1">>, <<"B", "2">>, <<"B", "3">>, <<"B", "4">>}

\* Variant: the table maps B3 and B4 the other way round.
BUTTON_TO_KEY_Swapped(button_id) ==
    CASE button_id = <<"B", "1">> -> "w"
      [] button_id = <<"B", "2">> -> "a"
      [] button_id = <<"B", "3">> -> "d"
      [] button_id = <<"B", "4">> -> "s"
      [] OTHER -> "None"

\* BUTTON_TO_KEY.get(button_id): the mapped character, or "None".
BUTTON_TO_KEY(button_id) ==
    CASE button_id = <<"B", "1">> -> "w"
      [] button_id = <<"B", "2">> -> "a"
      [] button_id = <<"B", "3">> -> "s"
      [] button_id = <<"B", "4">> -> "d"
      [] OTHER -> "None"

\* ------------------------------------------------------------ str helpers
Whitespace == {" ", "\t", "\n", "\r"}
Digits == {"0", "1", "2", "3", "4", "5", "6", "7", "8", "9"}

DigitVal(c) ==
    CASE c = "0" -> 0 [] c = "1" -> 1 [] c = "2" -> 2 [] c = "3" -> 3
      [] c = "4" -> 4 [] c = "5" -> 5 [] c = "6" -> 6 [] c = "7" -> 7
      [] c = "8" -> 8 [] c = "9" -> 9

\* bytes.decode('utf-8', errors='ignore'): undecodable bytes are dropped.
RECURSIVE Decode(_)
Decode(raw) ==
    IF raw = <<>> THEN <<>>
    ELSE IF Head(raw) = "<ff>" THEN Decode(Tail(raw))
    ELSE <<Head(raw)>> \o Decode(Tail(raw))

RECURSIVE LStrip(_)
LStrip(s) ==
    IF s # <<>> /\ Head(s) \in Whitespace THEN LStrip(Tail(s)) ELSE s

RECURSIVE RStrip(_)
RStrip(s) ==
    IF s # <<>> /\ s[Len(s)] \in Whitespace
    THEN RStrip(SubSeq(s, 1, Len(s) - 1)) ELSE s

\* str.strip()
Strip(s) == RStrip(LStrip(s))

\* str.split(':'): always at least one field; empty fields are kept.
RECURSIVE SplitAcc(_, _, _)
SplitAcc(s, cur, acc) ==
    IF s = <<>> THEN Append(acc, cur)
    ELSE IF Head(s) = ":" THEN SplitAcc(Tail(s), <<>>, Append(acc, cur))
    ELSE SplitAcc(Tail(s), Append(cur, Head(s)), acc)

Split(s) == SplitAcc(s, <<>>, <<>>)

\* int(text): surrounding whitespace is ignored, one optional sign, then
\* decimal digits, single underscores allowed between digits.
Unsigned(t) ==
    IF t # <<>> /\ Head(t) \in {"+", "-"} THEN Tail(t) ELSE t

IsIntLiteral(text) ==
    LET b == Unsigned(Strip(text)) IN
    /\ b # <<>>
    /\ \A i \in 1..Len(b) : b[i] \in Digits \cup {"_"}
    /\ b[1] \in Digits
    /\ b[Len(b)] \in Digits
    /\ \A i \in 1..(Len(b) - 1) : ~(b[i] = "_" /\ b[i + 1] = "_")

RECURSIVE Magnitude(_, _)
Magnitude(b, acc) ==
    IF b = <<>> THEN acc
    ELSE IF Head(b) = "_" THEN Magnitude(Tail(b), acc)
    ELSE Magnitude(Tail(b), 10 * acc + DigitVal(Head(b)))

IntValue(text) ==
    LET t == Strip(text)
        m == Magnitude(Unsigned(t), 0)
    IN IF Head(t) = "-" THEN 0 - m ELSE m

\* ------------------------------------------------------------- dict model
\* held_keys is a Python dict: a sequence of <<key, value>> pairs in
\* insertion order (the order items() iterates in).
DictHas(d, k) == \E i \in 1..Len(d) : d[i][1] = k

\* d.get(k, default)
DictGet(d, k, default) ==
    IF DictHas(d, k)
    THEN d[CHOOSE i \in 1..Len(d) : d[i][1] = k][2]
    ELSE default

\* Variant: the assignment rebinds the dict (held_keys = {k: v}).
DictSet_Rebind(d, k, v) == <<<<k, v>>>>

\* d[k] = v: an existing key keeps its position.
DictSet(d, k, v) ==
    IF DictHas(d, k)
    THEN [i \in 1..Len(d) |-> IF d[i][1] = k THEN <<k, v>> ELSE d[i]]
    ELSE Append(d, <<k, v>>)

\* ------------------------------------------------------- device traffic
B1 == <<"B", "1">>
B2 == <<"B", "2">>
B3 == <<"B", "3">>
B4 == <<"B", "4">>

\* Second fields that int() accepts, and ones it rejects.
OneTexts == {<<"1">>, <<"+", "1">>, <<"0", "1">>, <<" ", "1">>}
NonOneTexts == {<<"0">>, <<"2">>, <<"-", "1">>, <<"1", "0">>, <<"1", "_", "0">>}
IntTexts == OneTexts \cup NonOneTexts

\* The text "<id>:<v>".
Msg(id, v) == id \o <<":">> \o v

WellFormed == {Msg(b, v) : b \in Buttons, v \in IntTexts}

\* Lines the parser must drop.
BlankLines == {<<>>, <<" ", " ">>}
WrongArity == {B1, Msg(B1, <<"1", ":", "1">>), Msg(B2, <<"0", ":">>)}
NonInteger == {Msg(B1, <<"x">>), Msg(B1, <<>>), Msg(B3, <<"1", ".", "0">>),
               Msg(B2, <<"-">>), Msg(B4, <<"_", "1">>)}
UnknownId == {Msg(<<"B", "9">>, <<"1">>), Msg(<<"B", "9">>, <<"0">>),
              Msg(<<"b", "1">>, <<"1">>), Msg(<<>>, <<"1">>),
              Msg(<<"B", "1", " ">>, <<"1">>)}
Malformed == BlankLines \cup WrongArity \cup NonInteger \cup UnknownId

EOL == <<"\r", "\n">>

\* What ser.readline() can return: a terminated line, a line with reset
\* noise or padding around it, or b'' when the 1 s timeout expires.
Noisy == {<<"<ff>">> \o Msg(B1, <<"1">>) \o EOL,
          <<" ">> \o Msg(B2, <<"1">>) \o <<" ">> \o EOL,
          Msg(B3, <<"1">>)}
RawLines == {l \o EOL : l \in WellFormed \cup Malformed} \cup Noisy \cup {<<>>}

\* ------------------------------------------------------------------ state
VARIABLES
    pc,          \* position of main(): find, open, sleep, read, set_held,
                 \* cleanup, done
    modem,       \* glob.glob('/dev/cu.usbmodem*')
    usbserial,   \* glob.glob('/dev/cu.usbserial*')
    port_path,   \* main's port_path
    ser,         \* the serial connection: none, open, closed
    raw,         \* what the last ser.readline() returned
    reads,       \* number of ser.readline() calls made
    feed,        \* scripted device output (SpecE2E); <<>> when unscripted
    held_keys,   \* the module-level dict
    actions,     \* every keyboard.press / keyboard.release call, in order
    cur,         \* position of the cleanup loop in held_keys.items()
    exc,         \* the exception that ended the read loop
    excAt,       \* where main() was when it was raised
    aborted,     \* KeyboardInterrupt raised inside the finally block
    exitCode,    \* process exit status, -1 while running
    pre_held,    \* held_keys when the last line was handed to process_line
    pre_n,       \* Len(actions) at that moment
    mark         \* Len(actions) when the finally block was entered

vars == <<pc, modem, usbserial, port_path, ser, raw, reads, feed, held_keys,
          actions, cur, exc, excAt, aborted, exitCode, pre_held, pre_n, mark>>

\* ------------------------------------------------------ find_arduino_port
\* Variant: the two patterns are tried in the other order.
find_arduino_port_SerialFirst(candM, candS) ==
    IF candS # <<>> THEN candS[1]
    ELSE IF candM # <<>> THEN candM[1]
    ELSE "None"

find_arduino_port(candM, candS) ==
    IF candM # <<>> THEN candM[1]
    ELSE IF candS # <<>> THEN candS[1]
    ELSE "None"

\* ------------------------------------------------------------ process_line
\* Variant: pressed = bool(int(parts[1])).
Pressed_Truthy(text) == IntValue(text) # 0

\* pressed = int(parts[1]) == 1
Pressed(text) == IntValue(text) = 1

\* Variant: the press branch does not look at the held-state.
Transition_LevelTriggered(pressed, already_held) ==
    IF pressed THEN "press"
    ELSE IF ~pressed /\ already_held THEN "release"
    ELSE "none"

\* Variant: the release branch does not look at the held-state.
Transition_ReleaseUnheld(pressed, already_held) ==
    IF pressed /\ ~already_held THEN "press"
    ELSE IF ~pressed THEN "release"
    ELSE "none"

\* The branch of the if / elif that the tracker takes.
Transition(pressed, already_held) ==
    IF pressed /\ ~already_held THEN "press"
    ELSE IF ~pressed /\ already_held THEN "release"
    ELSE "none"

\* Variant: the field-count test is  len(parts) < 2.
Decide_LooseArity(line, held) ==
    LET stripped == Strip(line)
        parts == Split(stripped)
        none == [op |-> "none", button_id |-> <<>>, key_char |-> "None"]
    IN  IF stripped = <<>> THEN none
        ELSE IF Len(parts) < 2 THEN none
        ELSE IF ~IsIntLiteral(parts[2]) THEN none
        ELSE IF BUTTON_TO_KEY(parts[1]) = "None" THEN none
        ELSE [op |-> Transition(Pressed(parts[2]),
                                DictGet(held, parts[1], FALSE)),
              button_id |-> parts[1],
              key_char |-> BUTTON_TO_KEY(parts[1])]

\* Everything process_line decides before it touches the keyboard:
\* op is "press", "release" or "none" (every early return and the
\* no-transition case).
Decide(line, held) ==
    LET stripped == Strip(line)
        parts == Split(stripped)
        none == [op |-> "none", button_id |-> <<>>, key_char |-> "None"]
    IN  IF stripped = <<>> THEN none
        ELSE IF Len(parts) # 2 THEN none
        ELSE IF ~IsIntLiteral(parts[2]) THEN none
        ELSE IF BUTTON_TO_KEY(parts[1]) = "None" THEN none
        ELSE [op |-> Transition(Pressed(parts[2]),
                                DictGet(held, parts[1], FALSE)),
              button_id |-> parts[1],
              key_char |-> BUTTON_TO_KEY(parts[1])]

\* keyboard.press(k) / keyboard.release(k) as entries of the action log.
KeyDown(k) == <<"down", k>>
KeyUp(k) == <<"up", k>>

Emit(d) ==
    IF d.op = "press" THEN <<KeyDown(d.key_char)>>
    ELSE IF d.op = "release" THEN <<KeyUp(d.key_char)>>
    ELSE <<>>

\* Variant: the release branch stores True.
Store_ReleaseStoresTrue(d, held) ==
    IF d.op = "press" THEN DictSet(held, d.button_id, TRUE)
    ELSE IF d.op = "release" THEN DictSet(held, d.button_id, TRUE)
    ELSE held

\* Variant: the press branch stores False.
Store_PressStoresFalse(d, held) ==
    IF d.op = "press" THEN DictSet(held, d.button_id, FALSE)
    ELSE IF d.op = "release" THEN DictSet(held, d.button_id, FALSE)
    ELSE held

\* The held_keys assignment that follows the keyboard call.
Store(d, held) ==
    IF d.op = "press" THEN DictSet(held, d.button_id, TRUE)
    ELSE IF d.op = "release" THEN DictSet(held, d.button_id, FALSE)
    ELSE held

\* main's  line = raw.decode('utf-8', errors='ignore').strip()
MainLine(r) == Strip(Decode(r))

\* -------------------------------------------------------------------- main
\* sys.exit(1) at startup, an uncaught SerialException (traceback), an
\* uncaught KeyboardInterrupt, and falling off the end of main().
ExitFailure == 1
ExitInterrupted == 130
ExitNormal == 0

Devices == {<<>>, <<"/dev/cu.usbmodem1">>}

Init ==
    /\ pc = "find"
    /\ modem \in Devices
    /\ usbserial = <<>>
    /\ port_path = "None"
    /\ ser = "none"
    /\ raw = <<>>
    /\ reads = 0
    /\ feed = <<>>
    /\ held_keys = <<>>
    /\ actions = <<>>
    /\ cur = 0
    /\ exc = "none"
    /\ excAt = "none"
    /\ aborted = FALSE
    /\ exitCode = -1
    /\ pre_held = <<>>
    /\ pre_n = 0
    /\ mark = 0

\* Variant: the  if not port_path  test is missing.
Find_NoCheck ==
    /\ pc = "find"
    /\ port_path' = find_arduino_port(modem, usbserial)
    /\ pc' = "open"
    /\ UNCHANGED <<modem, usbserial, ser, raw, reads, feed, held_keys,
                   actions, cur, exc, excAt, aborted, exitCode, pre_held,
                   pre_n, mark>>

\* port_path = find_arduino_port(); if not port_path: sys.exit(1)
Find ==
    /\ pc = "find"
    /\ port_path' = find_arduino_port(modem, usbserial)
    /\ IF port_path' = "None"
       THEN pc' = "done" /\ exitCode' = ExitFailure
       ELSE pc' = "open" /\ UNCHANGED exitCode
    /\ UNCHANGED <<modem, usbserial, ser, raw, reads, feed, held_keys,
                   actions, cur, exc, excAt, aborted, pre_held, pre_n, mark>>

\* ser = serial.Serial(port_path, BAUD, timeout=1)
OpenOk ==
    /\ pc = "open"
    /\ ser' = "open"
    /\ pc' = "sleep"
    /\ UNCHANGED <<modem, usbserial, port_path, raw, reads, feed, held_keys,
                   actions, cur, exc, excAt, aborted, exitCode, pre_held,
                   pre_n, mark>>

\* except serial.SerialException: sys.exit(1)
OpenFail ==
    /\ pc = "open"
    /\ pc' = "done"
    /\ exitCode' = ExitFailure
    /\ UNCHANGED <<modem, usbserial, port_path, ser, raw, reads, feed,
                   held_keys, actions, cur, exc, excAt, aborted, pre_held,
                   pre_n, mark>>

\* time.sleep(2) returns and the try block is entered.
Sleep ==
    /\ pc = "sleep"
    /\ pc' = "read"
    /\ UNCHANGED <<modem, usbserial, port_path, ser, raw, reads, feed,
                   held_keys, actions, cur, exc, excAt, aborted, exitCode,
                   pre_held, pre_n, mark>>

\* Variant: a read that times out ends the loop (if not raw: break).
DoRead_BreakOnTimeout(r) ==
    LET line == MainLine(r)
        d == IF r = <<>> \/ line = <<>>
             THEN [op |-> "none", button_id |-> <<>>, key_char |-> "None"]
             ELSE Decide(line, held_keys)
    IN  /\ pc = "read"
        /\ raw' = r
        /\ reads' = reads + 1
        /\ pre_held' = held_keys
        /\ pre_n' = Len(actions)
        /\ actions' = actions \o Emit(d)
        /\ pc' = IF r = <<>> THEN "cleanup"
                 ELSE IF d.op = "none" THEN "read" ELSE "set_held"
        /\ cur' = IF r = <<>> THEN 1 ELSE cur
        /\ mark' = IF r = <<>> THEN Len(actions) ELSE mark
        /\ UNCHANGED <<modem, usbserial, port_path, ser, feed, held_keys,
                       exc, excAt, aborted, exitCode>>

\* One pass of the while loop up to and including the keyboard call of
\* process_line (or its return when there is nothing to do).
DoRead(r) ==
    LET line == MainLine(r)
        d == IF r = <<>> \/ line = <<>>
             THEN [op |-> "none", button_id |-> <<>>, key_char |-> "None"]
             ELSE Decide(line, held_keys)
    IN  /\ pc = "read"
        /\ raw' = r
        /\ reads' = reads + 1
        /\ pre_held' = held_keys
        /\ pre_n' = Len(actions)
        /\ actions' = actions \o Emit(d)
        /\ pc' = IF d.op = "none" THEN "read" ELSE "set_held"
        /\ UNCHANGED <<modem, usbserial, port_path, ser, feed, held_keys,
                       cur, exc, excAt, aborted, exitCode, mark>>

\* The device sends anything at all.
ReadLine ==
    /\ reads < MaxReads
    /\ \E r \in RawLines : DoRead(r)

\* held_keys[button_id] = True / False, then back to ser.readline().
SetHeld ==
    /\ pc = "set_held"
    /\ held_keys' = Store(Decide(MainLine(raw), held_keys), held_keys)
    /\ pc' = "read"
    /\ UNCHANGED <<modem, usbserial, port_path, ser, raw, reads, feed,
                   actions, cur, exc, excAt, aborted, exitCode, pre_held,
                   pre_n, mark>>

\* Variant: the cleanup sits in the except KeyboardInterrupt handler, so
\* any other exception leaves main() without it.
EnterFinally_HandlerOnly(e) ==
    /\ exc' = e
    /\ excAt' = pc
    /\ IF e = "KeyboardInterrupt"
       THEN pc' = "cleanup" /\ cur' = 1 /\ UNCHANGED exitCode
       ELSE pc' = "done" /\ exitCode' = ExitFailure /\ UNCHANGED cur
    /\ mark' = Len(actions)
    /\ UNCHANGED <<modem, usbserial, port_path, ser, raw, reads, feed,
                   held_keys, actions, aborted, pre_held, pre_n>>

\* Entering the finally block: the loop over held_keys.items() starts.
EnterFinally(e) ==
    /\ exc' = e
    /\ excAt' = pc
    /\ pc' = "cleanup"
    /\ cur' = 1
    /\ mark' = Len(actions)
    /\ UNCHANGED <<modem, usbserial, port_path, ser, raw, reads, feed,
                   held_keys, actions, aborted, exitCode, pre_held, pre_n>>

\* ser.readline() raises serial.SerialException: no except clause matches,
\* the finally block runs and the exception goes on.
ReadError ==
    /\ pc = "read"
    /\ EnterFinally("SerialException")

\* Ctrl+C inside the try block, between any two bytecodes of the loop body
\* or of process_line: except KeyboardInterrupt, then finally.
InterruptRunning ==
    /\ pc \in {"read", "set_held"}
    /\ EnterFinally("KeyboardInterrupt")

\* Ctrl+C before the try block is entered: nothing catches it.
InterruptStartup ==
    /\ pc \in {"find", "open", "sleep"}
    /\ exc' = "KeyboardInterrupt"
    /\ excAt' = pc
    /\ pc' = "done"
    /\ exitCode' = ExitInterrupted
    /\ UNCHANGED <<modem, usbserial, port_path, ser, raw, reads, feed,
                   held_keys, actions, cur, aborted, pre_held, pre_n, mark>>

\* Variant: the loop does not test is_held.
CleanupEmit_IgnoresHeld(item) ==
    IF BUTTON_TO_KEY(item[1]) # "None"
    THEN <<KeyUp(BUTTON_TO_KEY(item[1]))>>
    ELSE <<>>

\* What one iteration of the cleanup loop sends to the keyboard.
CleanupEmit(item) ==
    IF item[2] /\ BUTTON_TO_KEY(item[1]) # "None"
    THEN <<KeyUp(BUTTON_TO_KEY(item[1]))>>
    ELSE <<>>

\* Variant: the loop never gets past a button that is not held.
CleanupStep_StuckOnUnheld ==
    /\ pc = "cleanup"
    /\ cur <= Len(held_keys)
    /\ held_keys[cur][2]
    /\ actions' = actions \o CleanupEmit(held_keys[cur])
    /\ cur' = cur + 1
    /\ UNCHANGED <<pc, modem, usbserial, port_path, ser, raw, reads, feed,
                   held_keys, exc, excAt, aborted, exitCode, pre_held, pre_n,
                   mark>>

\* for button_id, is_held in held_keys.items(): ...
CleanupStep ==
    /\ pc = "cleanup"
    /\ cur <= Len(held_keys)
    /\ actions' = actions \o CleanupEmit(held_keys[cur])
    /\ cur' = cur + 1
    /\ UNCHANGED <<pc, modem, usbserial, port_path, ser, raw, reads, feed,
                   held_keys, exc, excAt, aborted, exitCode, pre_held, pre_n,
                   mark>>

\* Exit status once the finally block has completed.
ExitStatus(e) == IF e = "SerialException" THEN ExitFailure ELSE ExitNormal

\* ser.close(); print('Done.'); the pending exception, if any, goes on.
Close ==
    /\ pc = "cleanup"
    /\ cur > Len(held_keys)
    /\ ser' = "closed"
    /\ pc' = "done"
    /\ exitCode' = ExitStatus(exc)
    /\ UNCHANGED <<modem, usbserial, port_path, raw, reads, feed, held_keys,
                   actions, cur, exc, excAt, aborted, pre_held, pre_n, mark>>

\* Ctrl+C while the finally block runs: the rest of it is skipped.
InterruptCleanup ==
    /\ pc = "cleanup"
    /\ aborted' = TRUE
    /\ pc' = "done"
    /\ exitCode' = ExitInterrupted
    /\ UNCHANGED <<modem, usbserial, port_path, ser, raw, reads, feed,
                   held_keys, actions, cur, exc, excAt, pre_held, pre_n, mark>>

Next ==
    \/ Find
    \/ OpenOk
    \/ OpenFail
    \/ Sleep
    \/ ReadLine
    \/ SetHeld
    \/ ReadError
    \/ InterruptRunning
    \/ InterruptStartup
    \/ CleanupStep
    \/ Close
    \/ InterruptCleanup

Spec == Init /\ [][Next]_vars

\* --------------------------------------------------- scripted device feed
\* The bytes "<id>:<v>\r\n" as the firmware's println sends them.
Wire(id, v) == Msg(id, v) \o EOL

E2ELines == {Wire(B1, <<"1">>), Wire(B1, <<"0">>), Wire(B3, <<"1">>),
             Wire(B3, <<"0">>), Wire(<<"B", "9">>, <<"1">>),
             Wire(B1, <<"2">>)}

\* Running with nothing held yet, the device about to send a fixed feed.
InitE2E ==
    /\ pc = "read"
    /\ modem = <<"/dev/cu.usbmodem1">>
    /\ usbserial = <<>>
    /\ port_path = "/dev/cu.usbmodem1"
    /\ ser = "open"
    /\ raw = <<>>
    /\ reads = 0
    /\ feed \in [1..MaxFeed -> E2ELines]
    /\ held_keys = <<>>
    /\ actions = <<>>
    /\ cur = 0
    /\ exc = "none"
    /\ excAt = "none"
    /\ aborted = FALSE
    /\ exitCode = -1
    /\ pre_held = <<>>
    /\ pre_n = 0
    /\ mark = 0

\* ser.readline() returns the next line of the feed.
ReadFeed ==
    /\ reads < Len(feed)
    /\ DoRead(feed[reads + 1])

NextE2E ==
    \/ ReadFeed
    \/ SetHeld

SpecE2E == InitE2E /\ [][NextE2E]_vars

\* ------------------------------------------------------ observation terms
Keys == {"w", "a", "s", "d"}

\* The key the documentation assigns to each button (module docstring).
KeyOf(b) ==
    CASE b = B1 -> "w" [] b = B2 -> "a" [] b = B3 -> "s" [] b = B4 -> "d"

RECURSIVE Count(_, _)
Count(acts, a) ==
    IF acts = <<>> THEN 0
    ELSE (IF Head(acts) = a THEN 1 ELSE 0) + Count(Tail(acts), a)

\* How many more times key k went down than up on the host.
Net(acts, k) == Count(acts, <<"down", k>>) - Count(acts, <<"up", k>>)

\* The entries of acts that concern key k.
RECURSIVE ForKey(_, _)
ForKey(acts, k) ==
    IF acts = <<>> THEN <<>>
    ELSE (IF Head(acts)[2] = k THEN <<Head(acts)>> ELSE <<>>)
         \o ForKey(Tail(acts), k)

Alternates(acts) ==
    \A i \in 1..Len(acts) :
        acts[i][1] = (IF i % 2 = 1 THEN "down" ELSE "up")

Held(d, b) == DictGet(d, b, FALSE)

Running == pc \in {"read", "set_held"}

\* What the finally block sent to the keyboard.
CleanupActs == SubSeq(actions, mark + 1, Len(actions))

\* ------------------------------------------------------------------ claims

\* C1: once the serial port has been opened, whenever the process has
\* terminated no key is down on the host: each mapped key was released as
\* often as it was pressed.
C1_NoKeyStuckAtExit ==
    (pc = "done" /\ ser # "none") => \A k \in Keys : Net(actions, k) = 0

\* C2: when the shutdown trigger arrived at ser.readline(), between two
\* processed lines, and the finally block ran to its end, the cleanup sent
\* exactly one key-up for the mapped key of every button whose held-state
\* is true, none for any other button, and no key-down.
C2_CleanupReleasesExactlyHeld ==
    (pc = "done" /\ excAt = "read" /\ ~aborted) =>
        /\ \A b \in Buttons :
              Count(CleanupActs, <<"up", KeyOf(b)>>)
                  = (IF Held(held_keys, b) THEN 1 ELSE 0)
        /\ \A i \in 1..Len(CleanupActs) :
              /\ CleanupActs[i][1] = "up"
              /\ CleanupActs[i][2] \in Keys

C2_Witness ==
    /\ pc = "done" /\ excAt = "read" /\ ~aborted
    /\ reads = 3
    /\ Held(held_keys, B2)
    /\ DictHas(held_keys, B1) /\ ~Held(held_keys, B1)
    /\ CleanupActs = <<<<"up", "a">>>>

\* C3: while the loop runs, the actions sent for each mapped key alternate
\* down, up, down, ... starting with down; and the action a line caused, if
\* any, is a key-down only if its button was not held when the line
\* arrived and a key-up only if it was.
C3_EdgeTriggered ==
    Running =>
        /\ \A k \in Keys : Alternates(ForKey(actions, k))
        /\ Len(actions) <= pre_n + 1
        /\ Len(actions) = pre_n + 1 =>
              \E b \in Buttons :
                  /\ actions[Len(actions)][2] = KeyOf(b)
                  /\ actions[Len(actions)][1]
                        = (IF Held(pre_held, b) THEN "up" ELSE "down")

C3_Witness ==
    /\ pc = "read"
    /\ ForKey(actions, "w") = <<<<"down", "w">>, <<"up", "w">>, <<"down", "w">>>>
    /\ reads = 4

\* Line r has been read and process_line has returned.
Processed(r) == pc = "read" /\ reads > 0 /\ raw = r

\* The next step reads r again, right after r was processed.
Repeats(r) == Processed(r) /\ reads' = reads + 1 /\ raw' = r

\* C4: after "<id>:1" has been processed for a supported id that was not
\* held (false or absent), exactly one key-down of its mapped key was sent
\* and its held-state is true; processing the same line again right away
\* sends nothing and leaves the held-state as it is.
C4_PressOnce ==
    Processed(raw) =>
        \A b \in Buttons :
            (raw = Wire(b, <<"1">>) /\ ~Held(pre_held, b)) =>
                /\ actions = SubSeq(actions, 1, pre_n) \o <<<<"down", KeyOf(b)>>>>
                /\ Held(held_keys, b)

C4_RepeatSilent ==
    \A b \in Buttons :
        Repeats(Wire(b, <<"1">>)) =>
            /\ pc' = "read"
            /\ actions' = actions
            /\ held_keys' = held_keys

C4_Press == []C4_PressOnce /\ [][C4_RepeatSilent]_vars

C4_Witness ==
    /\ Processed(Wire(B4, <<"1">>))
    /\ DictHas(pre_held, B4) /\ ~Held(pre_held, B4)
    /\ Held(held_keys, B4)
    /\ actions[Len(actions)] = <<"down", "d">>

\* C5: after "<id>:0" has been processed for a supported id that was held,
\* exactly one key-up of its mapped key was sent and its held-state is
\* false; when the id was not held (never pressed, or the line is a repeat)
\* nothing was sent and the held-state is as it was.
C5_ReleaseOnce ==
    Processed(raw) =>
        \A b \in Buttons :
            raw = Wire(b, <<"0">>) =>
                IF Held(pre_held, b)
                THEN /\ actions = SubSeq(actions, 1, pre_n) \o <<<<"up", KeyOf(b)>>>>
                     /\ DictHas(held_keys, b)
                     /\ ~Held(held_keys, b)
                ELSE /\ Len(actions) = pre_n
                     /\ held_keys = pre_held

C5_RepeatSilent ==
    \A b \in Buttons :
        Repeats(Wire(b, <<"0">>)) =>
            /\ pc' = "read"
            /\ actions' = actions
            /\ held_keys' = held_keys

C5_Release == []C5_ReleaseOnce /\ [][C5_RepeatSilent]_vars

C5_Witness ==
    /\ Processed(Wire(B3, <<"0">>))
    /\ Held(pre_held, B3)
    /\ ~Held(held_keys, B3)
    /\ actions[Len(actions)] = <<"up", "s">>

\* C6: reading a line that is blank, does not split into exactly two
\* fields, has a non-integer second field or names no known button sends
\* nothing to the keyboard, leaves held_keys as it is, raises nothing and
\* leaves the loop at ser.readline().
MalformedWire == {l \o EOL : l \in Malformed}

C6_Dropped ==
    (pc = "read" /\ reads' = reads + 1 /\ raw' \in MalformedWire) =>
        /\ pc' = "read"
        /\ actions' = actions
        /\ held_keys' = held_keys
        /\ exc' = "none"
        /\ exitCode' = -1

C6_MalformedDropped == [][C6_Dropped]_vars

C6_Witness ==
    /\ Processed(Wire(B1, <<"1", ":", "1">>))
    /\ Held(held_keys, B2)
    /\ DictHas(held_keys, B1) /\ ~Held(held_keys, B1)
    /\ held_keys = pre_held
    /\ Len(actions) = pre_n

\* C7: for a supported id, a second field whose integer value is not 1
\* leaves exactly the actions and the held-state that "<id>:0" would have
\* left from the same state, and never a key-down; a second field whose
\* integer value is 1 leaves what "<id>:1" would have left.
SameAs(b, v) ==
    LET d == Decide(MainLine(Wire(b, v)), pre_held)
    IN  /\ actions = SubSeq(actions, 1, pre_n) \o Emit(d)
        /\ held_keys = Store(d, pre_held)

C7_OnlyOneIsPressed ==
    Processed(raw) =>
        \A b \in Buttons :
            /\ \A v \in NonOneTexts :
                  raw = Wire(b, v) =>
                      /\ SameAs(b, <<"0">>)
                      /\ ~Held(held_keys, b)
                      /\ Count(SubSeq(actions, pre_n + 1, Len(actions)),
                               <<"down", KeyOf(b)>>) = 0
            /\ \A v \in OneTexts :
                  raw = Wire(b, v) =>
                      /\ SameAs(b, <<"1">>)
                      /\ Held(held_keys, b)

C7_Witness ==
    /\ Processed(Wire(B1, <<"-", "1">>))
    /\ Held(pre_held, B1)
    /\ ~Held(held_keys, B1)
    /\ actions[Len(actions)] = <<"up", "w">>

\* C8: starting with nothing held, after any prefix of the feed the action
\* log is, in input order, one action per valid line whose pressed value
\* differs from the button's state at that moment and nothing else; the
\* feed B1:1, B1:1, B3:1, B1:0, B3:0 gives W-down, S-down, W-up, S-up.
EventOf(r) ==
    CASE r = Wire(B1, <<"1">>) -> [valid |-> TRUE, b |-> B1, p |-> TRUE]
      [] r = Wire(B1, <<"0">>) -> [valid |-> TRUE, b |-> B1, p |-> FALSE]
      [] r = Wire(B1, <<"2">>) -> [valid |-> TRUE, b |-> B1, p |-> FALSE]
      [] r = Wire(B3, <<"1">>) -> [valid |-> TRUE, b |-> B3, p |-> TRUE]
      [] r = Wire(B3, <<"0">>) -> [valid |-> TRUE, b |-> B3, p |-> FALSE]
      [] OTHER -> [valid |-> FALSE, b |-> <<>>, p |-> FALSE]

RECURSIVE ExpectedActs(_, _)
ExpectedActs(lines, down) ==
    IF lines = <<>> THEN <<>>
    ELSE LET e == EventOf(Head(lines))
             rest == Tail(lines)
         IN  IF e.valid /\ e.p /\ e.b \notin down
             THEN <<<<"down", KeyOf(e.b)>>>> \o ExpectedActs(rest, down \cup {e.b})
             ELSE IF e.valid /\ ~e.p /\ e.b \in down
             THEN <<<<"up", KeyOf(e.b)>>>> \o ExpectedActs(rest, down \ {e.b})
             ELSE ExpectedActs(rest, down)

Example == <<Wire(B1, <<"1">>), Wire(B1, <<"1">>), Wire(B3, <<"1">>),
             Wire(B1, <<"0">>), Wire(B3, <<"0">>)>>

ExampleActs == <<<<"down", "w">>, <<"down", "s">>, <<"up", "w">>, <<"up", "s">>>>

C8_EndToEnd ==
    pc = "read" =>
        /\ actions = ExpectedActs(SubSeq(feed, 1, reads), {})
        /\ (reads = Len(Example) /\ SubSeq(feed, 1, reads) = Example)
              => actions = ExampleActs

C8_Witness ==
    /\ pc = "read"
    /\ reads = Len(Example)
    /\ SubSeq(feed, 1, reads) = Example
    /\ actions = ExampleActs

\* C9: when ser.readline() fails, or Ctrl+C arrives there, and the finally
\* block runs to its end, the process terminates with every held key
\* released, in the order of held_keys, with no key down on the host and
\* with the serial connection closed, whichever of the two ended the loop.
RECURSIVE ReleasesOf(_)
ReleasesOf(d) ==
    IF d = <<>> THEN <<>>
    ELSE (IF Head(d)[2] THEN <<<<"up", KeyOf(Head(d)[1])>>>> ELSE <<>>)
         \o ReleasesOf(Tail(d))

C9_ReadFailureCleansUp ==
    (pc = "done" /\ excAt = "read" /\ ~aborted) =>
        /\ exc \in {"SerialException", "KeyboardInterrupt"}
        /\ CleanupActs = ReleasesOf(held_keys)
        /\ \A k \in Keys : Net(actions, k) = 0
        /\ ser = "closed"

C9_Witness ==
    /\ pc = "done" /\ excAt = "read" /\ ~aborted
    /\ exc = "SerialException"
    /\ Held(held_keys, B1) /\ Held(held_keys, B4)
    /\ Len(CleanupActs) = 2
    /\ ser = "closed"

\* C10: once the serial connection has been opened, the process never
\* terminates with it still open.
C10_SerialClosedAtExit ==
    (pc = "done" /\ ser # "none") => ser = "closed"

\* C11: a process stopped by Ctrl+C has run the cleanup (no key down, the
\* serial connection, if it was opened, closed) and exits 0; exit status 1
\* occurs only when no device was found or the device could not be opened.
Interrupted == exc = "KeyboardInterrupt" \/ aborted

StartupFailure == exc = "none" /\ ser = "none" /\ reads = 0

C11_InterruptIsNormalShutdown ==
    pc = "done" =>
        /\ Interrupted =>
              /\ exitCode = 0
              /\ ser # "open"
              /\ \A k \in Keys : Net(actions, k) = 0
        /\ exitCode = 1 => StartupFailure

\* C12: when discovery finds nothing the process goes straight from
\* find_arduino_port() to exit status 1 with no connection opened; when the
\* open fails it goes straight to exit status 1 without reaching the read
\* loop; a process that ended this way has read nothing and sent nothing to
\* the keyboard, and takes no further step (no second discovery or open).
C12_FailedStartupState ==
    (pc = "done" /\ exc = "none" /\ ser = "none") =>
        /\ exitCode = 1
        /\ reads = 0
        /\ actions = <<>>
        /\ held_keys = <<>>
        /\ port_path = "None" <=> (modem = <<>> /\ usbserial = <<>>)

C12_FailedStartupStep ==
    /\ (pc = "find" /\ modem = <<>> /\ usbserial = <<>> /\ exc' = "none") =>
          (pc' = "done" /\ exitCode' = 1 /\ ser' = "none")
    /\ (pc = "open" /\ ser' # "open" /\ exc' = "none") =>
          (pc' = "done" /\ exitCode' = 1 /\ port_path' = port_path)
    /\ pc = "done" => UNCHANGED vars

C12_StartupFailureNoRetry ==
    []C12_FailedStartupState /\ [][C12_FailedStartupStep]_vars

C12_Witness ==
    /\ pc = "done" /\ exc = "none" /\ ser = "none"
    /\ port_path = "/dev/cu.usbmodem1"
    /\ exitCode = 1
    /\ actions = <<>>

\* C13: main() only moves forward through Searching, Connecting, Running,
\* ShuttingDown, Terminated, one phase at a time, except that Searching
\* goes to Terminated when no device is found and Connecting goes to
\* Terminated when the open fails; these are the only shortcuts.
Phase(p) ==
    CASE p = "find" -> 1
      [] p \in {"open", "sleep"} -> 2
      [] p \in {"read", "set_held"} -> 3
      [] p = "cleanup" -> 4
      [] p = "done" -> 5

NoDevice == modem = <<>> /\ usbserial = <<>>

OpenFailed == pc = "open" /\ ser' = "none" /\ exc' = "none"

C13_Step ==
    \/ Phase(pc') = Phase(pc)
    \/ Phase(pc') = Phase(pc) + 1
    \/ Phase(pc) = 1 /\ Phase(pc') = 5 /\ NoDevice
    \/ Phase(pc) = 2 /\ Phase(pc') = 5 /\ OpenFailed

C13_LifecycleOrder == [][C13_Step]_vars

\* C14: a ser.readline() that returns, whatever it returns, leaves main()
\* in the read loop with no exception and no exit status; process_line
\* returns to the loop; the loop is left only for the finally block, and
\* only by a KeyboardInterrupt or a SerialException; the finally block is
\* entered from nowhere else.
Triggers == {"KeyboardInterrupt", "SerialException"}

C14_InLoop == Running => (exc = "none" /\ exitCode = -1 /\ ser = "open")

C14_Step ==
    /\ (pc = "read" /\ reads' = reads + 1) => Running'
    /\ (pc = "set_held" /\ exc' = "none") => pc' = "read"
    /\ (Running /\ ~Running') =>
          (pc' = "cleanup" /\ exc' \in Triggers /\ excAt' = pc)
    /\ (pc # "cleanup" /\ pc' = "cleanup") => (Running /\ exc' \in Triggers)

C14_OnlyTriggersLeaveRunning == []C14_InLoop /\ [][C14_Step]_vars

C14_Witness ==
    /\ pc = "read"
    /\ reads >= 4
    /\ raw = <<>>
    /\ exc = "none"
    /\ Held(held_keys, B1)
    /\ DictHas(held_keys, B2) /\ ~Held(held_keys, B2)

\* ------------------------------------------------------- port discovery
ModemPaths == {"/dev/cu.usbmodem1", "/dev/cu.usbmodem2", "/dev/cu.usbmodem3"}
SerialPaths == {"/dev/cu.usbserial1", "/dev/cu.usbserial2",
                "/dev/cu.usbserial3"}

\* What glob.glob can return when the pattern matches some of the paths:
\* any subset of them, each once, in any order.
Listings(paths) ==
    {l \in UNION {[1..n -> paths] : n \in 0..Cardinality(paths)} :
        \A i, j \in 1..Len(l) : l[i] = l[j] => i = j}

\* main() about to call find_arduino_port(), for every state of /dev.
InitLocator ==
    /\ pc = "find"
    /\ modem \in Listings(ModemPaths)
    /\ usbserial \in Listings(SerialPaths)
    /\ port_path = "None"
    /\ ser = "none"
    /\ raw = <<>>
    /\ reads = 0
    /\ feed = <<>>
    /\ held_keys = <<>>
    /\ actions = <<>>
    /\ cur = 0
    /\ exc = "none"
    /\ excAt = "none"
    /\ aborted = FALSE
    /\ exitCode = -1
    /\ pre_held = <<>>
    /\ pre_n = 0
    /\ mark = 0

NextLocator ==
    \/ Find
    \/ OpenOk
    \/ OpenFail

SpecLocator == InitLocator /\ [][NextLocator]_vars

\* C15: once find_arduino_port() has returned, its result is the first
\* usbmodem match whenever there is one, whatever usbserial matches; the
\* first usbserial match only when there is no usbmodem match; and the
\* not-found value exactly when neither pattern matches.
C15_OrderedFallback ==
    pc # "find" =>
        /\ modem # <<>> => port_path = modem[1]
        /\ (modem = <<>> /\ usbserial # <<>>) => port_path = usbserial[1]
        /\ port_path \in SerialPaths => modem = <<>>
        /\ port_path = "None" <=> (modem = <<>> /\ usbserial = <<>>)
        /\ port_path = "None" => (pc = "done" /\ exitCode = 1)

C15_Witness ==
    /\ pc = "open"
    /\ modem = <<"/dev/cu.usbmodem2", "/dev/cu.usbmodem1">>
    /\ usbserial = <<"/dev/cu.usbserial3">>
    /\ port_path = "/dev/cu.usbmodem2"

\* C17: whenever the loop is at ser.readline(), between two processed
\* lines, every button is held exactly when its key went down once more
\* than it went up, and not held (False or absent) exactly when the two
\* counts are equal; the difference is never anything but 0 or 1.
C17_HeldMirrorsHost ==
    pc = "read" =>
        \A b \in Buttons :
            /\ Net(actions, KeyOf(b)) \in {0, 1}
            /\ Held(held_keys, b) <=> Net(actions, KeyOf(b)) = 1
            /\ ~Held(held_keys, b) <=> Net(actions, KeyOf(b)) = 0

C17_Witness ==
    /\ pc = "read"
    /\ Held(held_keys, B1) /\ Net(actions, "w") = 1
    /\ DictHas(held_keys, B2) /\ ~Held(held_keys, B2) /\ Net(actions, "a") = 0
    /\ ~DictHas(held_keys, B3) /\ Net(actions, "s") = 0

\* C18: held_keys only ever has entries for B1..B4 and every action sent
\* targets w, a, s or d; and while the loop runs, a line "<b>:<integer>"
\* has changed the entry of no button other than b and has sent no action
\* for a key other than the one mapped to b.
LinesFor(b) == {Wire(b, v) : v \in IntTexts}

C18_PerButtonIsolation ==
    /\ \A i \in 1..Len(held_keys) : held_keys[i][1] \in Buttons
    /\ \A i \in 1..Len(actions) : actions[i][2] \in Keys
    /\ (Running /\ reads > 0) =>
          \A b \in Buttons :
              raw \in LinesFor(b) =>
                  /\ \A c \in Buttons \ {b} :
                        /\ DictHas(held_keys, c) <=> DictHas(pre_held, c)
                        /\ Held(held_keys, c) <=> Held(pre_held, c)
                  /\ \A i \in (pre_n + 1)..Len(actions) :
                        actions[i][2] = KeyOf(b)

C18_Witness ==
    /\ Processed(Wire(B2, <<"1">>))
    /\ Held(pre_held, B1) /\ Held(held_keys, B1)
    /\ DictHas(pre_held, B3) /\ ~Held(held_keys, B3)
    /\ ~Held(pre_held, B2) /\ Held(held_keys, B2)
    /\ actions[Len(actions)] = <<"down", "a">>

\* ------------------------------------------------------------- progress
\* main() is one thread of straight-line code: once inside the finally
\* block, each keyboard.release() and ser.close() returns and the next
\* statement runs.
SpecLive == Spec /\ WF_vars(CleanupStep) /\ WF_vars(Close)

\* C19: once a KeyboardInterrupt or a SerialException has ended the read
\* loop, the process reaches termination; the finally block sends key-ups
\* only, at most one per mapped key; and a terminated process sends
\* nothing more.
C19_Bounded ==
    pc \in {"cleanup", "done"} =>
        /\ \A i \in 1..Len(CleanupActs) : CleanupActs[i][1] = "up"
        /\ \A k \in Keys : Count(CleanupActs, <<"up", k>>) <= 1
        /\ Len(CleanupActs) <= Cardinality(Buttons)

C19_Quiet == pc = "done" => (pc' = "done" /\ actions' = actions)

C19_ShutdownCompletes ==
    /\ (pc = "cleanup") ~> (pc = "done")
    /\ []C19_Bounded
    /\ [][C19_Quiet]_vars

C19_Witness ==
    /\ pc = "done"
    /\ exc = "SerialException"
    /\ ~aborted
    /\ Len(CleanupActs) = 3
    /\ ser = "closed"

====
